---- MODULE Spec2Model ----
(***************************************************************************)
(* Model of the essay-feedback bot in src/main.py: the three in-memory     *)
(* stores (user_essay_data, user_license_status, used_licenses), the       *)
(* handlers handle_essay, handle_pdf_request, handle_redeem and            *)
(* handle_status, and the helper check_license_validity.                   *)
(*                                                                         *)
(* Handlers are coroutines.  Code between two awaits runs as one atomic    *)
(* step; at an await another handler invocation may run.  task is the bag  *)
(* of the invocations suspended at an await, each with its pc (the await)  *)
(* and its local variables; outbox is the last message a handler produced. *)
(***************************************************************************)
EXTENDS Integers, Sequences, FiniteSets, Bags, TLC

\* ---------------------------------------------------------------- bounds
Users == {"u1", "u2"}
Keys == {"k1"}
NumTasks == 2
MaxUpdates == 5
TickDays == 30
MaxNow == 45
MaxLines == 4
MaxBand == 9
MaxServed == 3

\* ------------------------------------------------------ program constants
FreeLimit == 3
LicenseDays == 30

\* a missing dictionary entry is the empty sequence, a present one a
\* one-element sequence holding the value
NoData == << >>
NoLicense == << >>
Unbound == "Unbound"
NoKey == "NoKey"
NoReply == "NoReply"
NoResp == "NoResp"
NoUser == "NoUser"

\* ------------------------------------------------------- evaluator texts
\* A text is its lines plus whether the last line ends with a line break.
\* A line has a label (a criterion name, "overall", "blank", ...), the band
\* token that follows a criterion name, and the number of words that are
\* left of it once the overall label and the disclaimer are stripped.
\* the table written in another order
criteria_Reordered ==
    << "Vocabulary", "Task Achievement",
       "Grammatical Range & Accuracy", "Coherence & Cohesion" >>

criteria ==
    << "Task Achievement", "Vocabulary",
       "Grammatical Range & Accuracy", "Coherence & Cohesion" >>

\* a run of digits and dots that float() rejects, such as ... or 1.2.3
Malformed == -1

Line(l, b, w) == [label |-> l, band |-> b, words |-> w]
CritLine(l, b) == Line(l, b, 3)
ProseLine == Line("prose", 0, 6)
ApologyLine == Line("apology", 0, 9)
BlankLine == Line("blank", 0, 0)
\* a line that is only "This essay would likely score ..."
DisclaimerLine == Line("disclaimer", 0, 0)
OverallLine(w) == Line("overall", 0, w)

WellFormedText ==
    [lines |-> << CritLine("Task Achievement", 7), CritLine("Vocabulary", 8),
                  CritLine("Grammatical Range & Accuracy", 7),
                  CritLine("Coherence & Cohesion", 8), ProseLine >>,
     nl |-> TRUE]
UnstructuredText == [lines |-> << ProseLine >>, nl |-> FALSE]
\* the string generate_feedback_sync returns from its except branch
ApologyText == [lines |-> << ApologyLine >>, nl |-> FALSE]
\* a criterion line whose band token is not a number
MalformedText ==
    [lines |-> << CritLine("Task Achievement", Malformed) >>, nl |-> TRUE]

\* what model.generate_content may return, or "raises"
EvaluatorOutcomes == {"well_formed", "unstructured", "malformed", "raises"}

generate_feedback_sync(outcome) ==
    CASE outcome = "well_formed" -> WellFormedText
      [] outcome = "unstructured" -> UnstructuredText
      [] outcome = "malformed" -> MalformedText
      [] OTHER -> ApologyText

\* indices of the lines a criterion pattern matches: the pattern ends in \n
MatchingLines(text, label) ==
    { i \in 1..Len(text.lines) :
        /\ text.lines[i].label = label
        /\ (i < Len(text.lines) \/ text.nl) }

Min(S) == CHOOSE x \in S : \A y \in S : x <= y

\* re.search: the first line the pattern of criteria[i] matches, 0 if none
FirstMatch(text, i) ==
    LET m == MatchingLines(text, criteria[i])
    IN  IF m = {} THEN 0 ELSE Min(m)

\* float(match.group(1)) raises ValueError for some criterion
BandRaises(text) ==
    \E i \in 1..Len(criteria) :
        /\ FirstMatch(text, i) # 0
        /\ text.lines[FirstMatch(text, i)].band = Malformed

RECURSIVE CommentsFrom(_, _)
CommentsFrom(text, i) ==
    IF i > Len(criteria) THEN << >>
    ELSE LET m == MatchingLines(text, criteria[i])
         IN  IF m = {} THEN CommentsFrom(text, i + 1)
             ELSE << << criteria[i], text.lines[Min(m)].band >> >>
                     \o CommentsFrom(text, i + 1)

\* the comments mapping of extract_band_details, as the sequence of its
\* (label, band) items in insertion order
extract_band_details(text) == CommentsFrom(text, 1)

RECURSIVE SumBands(_)
SumBands(comments) ==
    IF comments = << >> THEN 0
    ELSE Head(comments)[2] + SumBands(Tail(comments))

\* rounds num / den half away from zero (num >= 0, den > 0)
PyRound_HalfAway(num, den) ==
    IF 2 * (num % den) >= den THEN (num \div den) + 1 ELSE num \div den

\* Python's round() of num / den: to the nearest integer, a tie to the even
\* neighbour (num >= 0, den > 0)
PyRound(num, den) ==
    LET q == num \div den
        r == num % den
    IN  IF 2 * r < den THEN q
        ELSE IF 2 * r > den THEN q + 1
        ELSE IF q % 2 = 0 THEN q ELSE q + 1

\* no overall score in the summary
NoScore == -1

\* line 84, round(sum(scores) / len(scores) * 2) / 2, as twice its value
overall_x2(comments) == PyRound(2 * SumBands(comments), Len(comments))

\* the summary of extract_band_details: whether bands were found, and twice
\* the overall band score it prints
band_summary(text) ==
    LET comments == extract_band_details(text)
    IN  IF Len(comments) > 0
        THEN [found |-> TRUE, overall_x2 |-> overall_x2(comments)]
        ELSE [found |-> FALSE, overall_x2 |-> NoScore]

\* lines 186-188, the footer of the rendered page, as twice its value
footer_overall_x2(comments_dict) ==
    PyRound(2 * SumBands(comments_dict), Len(comments_dict))

\* ------------------------------------------------ extract_overall_comment
MinWords == 5

FirstOf(S) == IF S = {} THEN 0 ELSE Min(S)

\* the first line that starts with "overall" and keeps at least MinWords
\* words once label and disclaimer are stripped
OverallLineOf(text) ==
    FirstOf({ i \in 1..Len(text.lines) :
                /\ text.lines[i].label = "overall"
                /\ text.lines[i].words >= MinWords })

\* the first line the fallback pattern can start at; it needs no line break
CohesionLineOf(text) ==
    FirstOf({ i \in 1..Len(text.lines) :
                text.lines[i].label = "Coherence & Cohesion" })

\* the first \n\n after line i: an empty line that ends with a line break
BlankAfter(text, i) ==
    FirstOf({ k \in (i + 1)..Len(text.lines) :
                /\ text.lines[k].label = "blank"
                /\ (k < Len(text.lines) \/ text.nl) })

\* group(1).strip().split("\n")[0]: the first non-empty line after line k
ParagraphAfter(text, k) ==
    FirstOf({ j \in (k + 1)..Len(text.lines) :
                text.lines[j].label # "blank" })

\* words of a line returned as the fallback paragraph: only the disclaimer
\* is stripped, an "overall" label stays
ParagraphWords(line) ==
    IF line.label = "overall" THEN line.words + 1 ELSE line.words

Comment(source, line, words) ==
    [source |-> source, line |-> line, words |-> words]

Sentinel == Comment("sentinel", 0, 4)

\* lines 107-113: what is returned once the fallback pattern has matched
\* with its \n\n at line k
FallbackComment(text, k) ==
    LET j == ParagraphAfter(text, k)
    IN  IF j = 0 THEN Comment("paragraph", 0, 0)
        ELSE Comment("paragraph", j, ParagraphWords(text.lines[j]))

extract_overall_comment(text) ==
    LET o == OverallLineOf(text)
        c == CohesionLineOf(text)
    IN  IF o # 0 THEN Comment("overall_line", o, text.lines[o].words)
        ELSE IF c # 0 /\ BlankAfter(text, c) # 0
             THEN FallbackComment(text, BlankAfter(text, c))
             ELSE Sentinel

\* ------------------------------------------------------------------ state
VARIABLES
    user_essay_data,      \* user -> NoData or <<[count, comments, overall]>>
    user_license_status,  \* user -> NoLicense or <<expiry day>>
    used_licenses,        \* key -> Unbound or the user it is bound to
    now,                  \* datetime.now(), in days
    task,                 \* suspended handler invocations
    outbox,               \* the last reply, or the exception a handler raised
    evaluatorCalls,       \* user -> number of generate_feedback_sync calls
    analysesCompleted,    \* user -> number of invocations that stored a report
    freshRedeemers,       \* key -> users who redeemed it with uses == 0
    activated,            \* key -> users who were told "License activated"
    firstExpiry,          \* key -> NoLicense or <<expiry of its first activation>>
    updates,              \* number of updates dispatched so far
    input,                \* text processing: the text or scores handed in
    output,               \* text processing: what the functions returned
    loop,                 \* scheduling: what the event-loop thread executes
    pool,                 \* scheduling: users with a call on a worker thread
    served                \* scheduling: user -> handlers run to completion

mainVars == << user_essay_data, user_license_status, used_licenses, now, task,
               outbox, evaluatorCalls, analysesCompleted, freshRedeemers,
               activated, firstExpiry, updates >>

\* the variables of the text-processing and scheduling specifications
textVars == << input, output >>
loopVars == << loop, pool, served >>

vars == << mainVars, textVars, loopVars >>

\* a suspended invocation: its handler, the await it is at, its locals
Invocation(handler, pc, user, count) ==
    [handler |-> handler, pc |-> pc, user |-> user, count |-> count]

Suspend(t) == task (+) SetToBag({t})
Resume(t) == task (-) SetToBag({t})

Sent(u, text) == [to |-> u, text |-> text]

Pending == [status |-> "pending"]
Idle == [op |-> "idle", user |-> NoUser]

\* the handlers have not run
InitMain ==
    /\ user_essay_data = [u \in Users |-> NoData]
    /\ user_license_status = [u \in Users |-> NoLicense]
    /\ used_licenses = [k \in Keys |-> Unbound]
    /\ now = 0
    /\ task = EmptyBag
    /\ outbox = Sent(NoUser, NoReply)
    /\ evaluatorCalls = [u \in Users |-> 0]
    /\ analysesCompleted = [u \in Users |-> 0]
    /\ freshRedeemers = [k \in Keys |-> {}]
    /\ activated = [k \in Keys |-> {}]
    /\ firstExpiry = [k \in Keys |-> NoLicense]
    /\ updates = 0

InitText ==
    /\ input = << >>
    /\ output = Pending

InitLoop ==
    /\ loop = Idle
    /\ pool = {}
    /\ served = [u \in Users |-> 0]

Init == InitMain /\ InitText /\ InitLoop

\* user_essay_data.get(user_id, {}).get("count", 0)
Count(u) ==
    IF user_essay_data[u] = NoData THEN 0 ELSE user_essay_data[u][1].count

\* licenseExpiry > now
ActiveLicense(u) ==
    /\ user_license_status[u] # NoLicense
    /\ user_license_status[u][1] > now

\* an update is taken from the queue
Dispatch ==
    /\ updates < MaxUpdates
    /\ updates' = updates + 1

\* time passes
Tick ==
    /\ now + TickDays <= MaxNow
    /\ now' = now + TickDays
    /\ UNCHANGED << user_essay_data, user_license_status, used_licenses, task,
                    outbox, evaluatorCalls, analysesCompleted, freshRedeemers,
                    activated, firstExpiry, updates >>
    /\ UNCHANGED << textVars, loopVars >>

\* ------------------------------------------------- check_license_validity
\* what requests.get(...) and response.json() may deliver
Responses == {"non200", "raises", "uses0", "usesN", "nodata"}

\* requests.get raises (a timeout included) or response.json() does:
\* the try block leaves through the except branch
RequestFails(resp) == resp = "raises"

\* the binding check of line 134 left out
KeyUsedByOther_Never(user_id, key) == FALSE

\* a bound key is refused to everybody, its owner included
KeyUsedByOther_AnyBound(user_id, key) == used_licenses[key] # Unbound

\* key in used_licenses and used_licenses[key] != user_id
KeyUsedByOther(user_id, key) ==
    /\ used_licenses[key] # Unbound
    /\ used_licenses[key] # user_id

\* any payload that carries a uses field is accepted
ZeroUses_AnyUses(resp) == resp \in {"uses0", "usesN"}

\* "data" in data and data["data"].get("uses", -1) == 0
ZeroUses(resp) == resp = "uses0"

Rejected ==
    [valid |-> FALSE, uls |-> user_license_status, ul |-> used_licenses]

\* a successful redeem writes the expiry into every user's record
check_license_validity_AllUsers(user_id, key, resp) ==
    IF RequestFails(resp) \/ resp = "non200" \/ KeyUsedByOther(user_id, key)
       \/ ~ZeroUses(resp)
    THEN Rejected
    ELSE [valid |-> TRUE,
          uls |-> [u \in Users |-> << now + LicenseDays >>],
          ul |-> [used_licenses EXCEPT ![key] = user_id]]

\* the returned flag together with the two stores as the call leaves them
check_license_validity(user_id, key, resp) ==
    IF RequestFails(resp) THEN Rejected
    ELSE IF resp = "non200" THEN Rejected
    ELSE IF KeyUsedByOther(user_id, key) THEN Rejected
    ELSE IF ZeroUses(resp)
         THEN [valid |-> TRUE,
               uls |-> [user_license_status EXCEPT
                            ![user_id] = << now + LicenseDays >>],
               ul |-> [used_licenses EXCEPT ![key] = user_id]]
         ELSE Rejected

\* ------------------------------------------------------------ handle_essay
\* expiry and expiry > datetime.datetime.now(): datetime is the class, so
\* the right operand raises whenever expiry is set
is_licensed(u) ==
    IF user_license_status[u] = NoLicense THEN "falsy" ELSE "AttributeError"

\* lines 235-252: up to the await of the evaluator call.  The await of line
\* 250 is folded into this step: the code between it and line 252 touches
\* none of the stores, so running it at once loses no behaviour.
EssayStart(u) ==
    /\ Dispatch
    /\ BagCardinality(task) < NumTasks
    /\ LET count == Count(u)
       IN  IF is_licensed(u) = "AttributeError"
           THEN /\ outbox' = Sent(u, "AttributeError")
                /\ UNCHANGED << task, evaluatorCalls >>
           ELSE IF count >= FreeLimit
           THEN /\ outbox' = Sent(u, "limit")
                /\ UNCHANGED << task, evaluatorCalls >>
           ELSE /\ outbox' = Sent(u, "analyzing")
                /\ task' = Suspend(Invocation("essay", "thread252", u, count))
                /\ evaluatorCalls' = [evaluatorCalls EXCEPT ![u] = @ + 1]
    /\ UNCHANGED << user_essay_data, user_license_status, used_licenses, now,
                    analysesCompleted, freshRedeemers, activated, firstExpiry >>
    /\ UNCHANGED << textVars, loopVars >>

\* lines 253-272: the worker thread returned; a ValueError raised by
\* extract_band_details ends the handler before anything is stored
EssayStore(t, outcome) ==
    /\ BagIn(t, task)
    /\ t.pc = "thread252"
    /\ LET feedback == generate_feedback_sync(outcome)
           u == t.user
       IN  IF BandRaises(feedback)
           THEN /\ outbox' = Sent(u, "ValueError")
                /\ UNCHANGED << user_essay_data, analysesCompleted >>
           ELSE /\ user_essay_data' = [user_essay_data EXCEPT ![u] =
                       << [count |-> t.count + 1,
                           comments |-> extract_band_details(feedback),
                           overall |-> extract_overall_comment(feedback)] >>]
                /\ analysesCompleted' =
                       [analysesCompleted EXCEPT ![u] = @ + 1]
                /\ outbox' = Sent(u, "report")
    /\ task' = Resume(t)
    /\ UNCHANGED << user_license_status, used_licenses, now, evaluatorCalls,
                    freshRedeemers, activated, firstExpiry, updates >>
    /\ UNCHANGED << textVars, loopVars >>

\* ------------------------------------------------------ handle_pdf_request
\* generate_pdf_with_template: the overall score divides by
\* len(comments_dict) before the template is opened
generate_pdf_with_template(comments_dict, template_ok) ==
    IF Len(comments_dict) = 0 THEN "ZeroDivisionError"
    ELSE IF ~template_ok THEN "NoTemplateAsset"
    ELSE "document"

\* lines 277-278
PdfStart(u) ==
    /\ Dispatch
    /\ BagCardinality(task) < NumTasks
    /\ task' = Suspend(Invocation("pdf", "answer278", u, 0))
    /\ UNCHANGED << user_essay_data, user_license_status, used_licenses, now,
                    outbox, evaluatorCalls, analysesCompleted, freshRedeemers,
                    activated, firstExpiry >>
    /\ UNCHANGED << textVars, loopVars >>

\* lines 279-288
PdfRender(t, template_ok) ==
    /\ BagIn(t, task)
    /\ t.pc = "answer278"
    /\ LET u == t.user
       IN  outbox' = Sent(u,
               IF user_essay_data[u] = NoData THEN "no_data"
               ELSE generate_pdf_with_template(user_essay_data[u][1].comments,
                                               template_ok))
    /\ task' = Resume(t)
    /\ UNCHANGED << user_essay_data, user_license_status, used_licenses, now,
                    evaluatorCalls, analysesCompleted, freshRedeemers,
                    activated, firstExpiry, updates >>
    /\ UNCHANGED << textVars, loopVars >>

\* ----------------------------------------------------------- handle_redeem
\* lines 292-306, which contain no await before the reply; arg is the key,
\* or NoKey when the message does not have exactly two parts
Redeem(u, arg, resp) ==
    /\ Dispatch
    /\ IF arg = NoKey
       THEN /\ resp = NoResp
            /\ outbox' = Sent(u, "usage")
            /\ UNCHANGED << user_license_status, used_licenses,
                            freshRedeemers, activated, firstExpiry >>
       ELSE LET r == check_license_validity(u, arg, resp)
            IN  /\ outbox' = Sent(u, IF r.valid THEN "activated"
                                     ELSE "invalid")
                /\ user_license_status' = r.uls
                /\ used_licenses' = r.ul
                /\ freshRedeemers' =
                       IF resp = "uses0"
                       THEN [freshRedeemers EXCEPT ![arg] = @ \cup {u}]
                       ELSE freshRedeemers
                /\ activated' =
                       IF r.valid THEN [activated EXCEPT ![arg] = @ \cup {u}]
                       ELSE activated
                /\ firstExpiry' =
                       IF r.valid /\ firstExpiry[arg] = NoLicense
                       THEN [firstExpiry EXCEPT ![arg] = r.uls[u]]
                       ELSE firstExpiry
    /\ UNCHANGED << user_essay_data, now, task, evaluatorCalls,
                    analysesCompleted >>
    /\ UNCHANGED << textVars, loopVars >>

\* ----------------------------------------------------------- handle_status
\* lines 310-319
Status(u) ==
    /\ Dispatch
    /\ outbox' = Sent(u, IF user_license_status[u] # NoLicense
                         THEN "active" ELSE "free")
    /\ UNCHANGED << user_essay_data, user_license_status, used_licenses, now,
                    task, evaluatorCalls, analysesCompleted, freshRedeemers,
                    activated, firstExpiry >>
    /\ UNCHANGED << textVars, loopVars >>

Next ==
    \/ Tick
    \/ \E u \in Users : EssayStart(u)
    \/ \E t \in BagToSet(task), o \in EvaluatorOutcomes : EssayStore(t, o)
    \/ \E u \in Users : PdfStart(u)
    \/ \E t \in BagToSet(task), ok \in BOOLEAN : PdfRender(t, ok)
    \/ \E u \in Users, k \in Keys, r \in Responses : Redeem(u, k, r)
    \/ \E u \in Users : Redeem(u, NoKey, NoResp)
    \/ \E u \in Users : Status(u)

Spec == Init /\ [][Next]_vars


\* --------------------------------------------------------- text processing
\* The two extraction functions applied to one evaluator text, as lines
\* 253-254 of handle_essay apply them.
Alphabet ==
    { CritLine("Task Achievement", 7), CritLine("Vocabulary", 8),
      CritLine("Grammatical Range & Accuracy", 6),
      CritLine("Coherence & Cohesion", 9),
      CritLine("Task Achievement", Malformed),
      OverallLine(6), OverallLine(2), BlankLine, ProseLine, DisclaimerLine }

\* a last line without a line break is not an empty line
Texts ==
    { t \in [lines : UNION { [1..n -> Alphabet] : n \in 0..MaxLines },
             nl : BOOLEAN] :
        \/ t.nl
        \/ (Len(t.lines) > 0 /\ t.lines[Len(t.lines)].label # "blank") }

InitTexts ==
    /\ InitMain
    /\ InitLoop
    /\ input \in Texts
    /\ output = Pending

Parse ==
    /\ output = Pending
    /\ output' =
           IF BandRaises(input) THEN [status |-> "ValueError"]
           ELSE [status |-> "returned",
                 comments |-> extract_band_details(input),
                 summary |-> band_summary(input),
                 overall |-> extract_overall_comment(input)]
    /\ UNCHANGED << input, mainVars, loopVars >>

NextText == Parse

SpecText == InitTexts /\ [][NextText]_vars

\* ---------------------------------------------------------- overall score
\* The overall band score of a sequence of bands, as the summary prints it
\* and as the footer of the rendered page prints it.
Bands == 0..MaxBand

ScoreLists == UNION { [1..n -> Bands] : n \in 1..Len(criteria) }

\* the comments mapping whose bands are the given scores
CommentsOf(scores) == [i \in 1..Len(scores) |-> << criteria[i], scores[i] >>]

InitScores ==
    /\ InitMain
    /\ InitLoop
    /\ input \in ScoreLists
    /\ output = Pending

Aggregate ==
    /\ output = Pending
    /\ output' = [status |-> "returned",
                  summary |-> overall_x2(CommentsOf(input)),
                  footer |-> footer_overall_x2(CommentsOf(input))]
    /\ UNCHANGED << input, mainVars, loopVars >>

NextScore == Aggregate

SpecScore == InitScores /\ [][NextScore]_vars

\* -------------------------------------------------------------- scheduling
\* Where each slow call runs. The handlers are coroutines on one event-loop
\* thread; a call made without await asyncio.to_thread keeps that thread
\* until it returns.
SlowOnLoop == { "check_license_validity", "generate_pdf_with_template" }

InitSched ==
    /\ InitMain
    /\ InitText
    /\ loop = Idle
    /\ pool = {}
    /\ served = [u \in Users |-> 0]

\* line 252: the evaluator call is handed to a worker thread and awaited
LoopEssayCall(u) ==
    /\ loop = Idle
    /\ u \notin pool
    /\ served[u] < MaxServed
    /\ pool' = pool \cup {u}
    /\ UNCHANGED << loop, served, mainVars, textVars >>

\* lines 253-272: the rest of handle_essay runs when the thread is free
LoopEssayDone(u) ==
    /\ loop = Idle
    /\ u \in pool
    /\ pool' = pool \ {u}
    /\ served' = [served EXCEPT ![u] = @ + 1]
    /\ UNCHANGED << loop, mainVars, textVars >>

\* line 299 (requests.get, line 125) and line 286: called in the coroutine
LoopBlockingCall(u, op) ==
    /\ loop = Idle
    /\ served[u] < MaxServed
    /\ loop' = [op |-> op, user |-> u]
    /\ UNCHANGED << pool, served, mainVars, textVars >>

LoopBlockingReturn ==
    /\ loop # Idle
    /\ loop' = Idle
    /\ served' = [served EXCEPT ![loop.user] = @ + 1]
    /\ UNCHANGED << pool, mainVars, textVars >>

\* handle_status: an update that needs nothing but the event-loop thread
LoopStatus(u) ==
    /\ loop = Idle
    /\ served[u] < MaxServed
    /\ served' = [served EXCEPT ![u] = @ + 1]
    /\ UNCHANGED << loop, pool, mainVars, textVars >>

NextSched ==
    \/ \E u \in Users : LoopEssayCall(u)
    \/ \E u \in Users : LoopEssayDone(u)
    \/ \E u \in Users, op \in SlowOnLoop : LoopBlockingCall(u, op)
    \/ LoopBlockingReturn
    \/ \E u \in Users : LoopStatus(u)

SpecLoop == InitSched /\ [][NextSched]_vars

\* ----------------------------------------------------------------- claims
EssayInFlight(u) ==
    \E t \in BagToSet(task) : t.handler = "essay" /\ t.user = u

\* C1: a user whose count is at least 3 and whose license is active
\* (licenseExpiry > now) has the next essay submission admitted to the
\* analysis path, not denied and not ended by an exception; a redeem does
\* not change the stored count.
C1_LicensePrecedence ==
    [][ /\ \A u \in Users :
              (EssayStart(u) /\ Count(u) >= FreeLimit /\ ActiveLicense(u))
                  => /\ outbox' = Sent(u, "analyzing")
                     /\ evaluatorCalls'[u] = evaluatorCalls[u] + 1
        /\ \A u \in Users, k \in Keys, r \in Responses :
              Redeem(u, k, r) => UNCHANGED user_essay_data ]_vars

\* C2: for a user who never held a license, the evaluator is called at most
\* 3 times in total, whatever the interleaving of the handle_essay
\* invocations.
C2_FreeQuotaBound ==
    \A u \in Users :
        user_license_status[u] = NoLicense => evaluatorCalls[u] <= FreeLimit

\* C3: whenever no analysis is in flight for a user, the stored count equals
\* the number of handle_essay invocations that completed an analysis.
C3_NoLostIncrements ==
    \A u \in Users : ~EssayInFlight(u) => Count(u) = analysesCompleted[u]

\* C4: no step of the system decreases a user's stored count.
C4_CounterMonotone ==
    [][ \A u \in Users : Count(u)' >= Count(u) ]_vars

\* C5: once a key is bound to a user, it stays bound to that user.
C5_KeyBindingImmutable ==
    [][ \A k \in Keys :
            used_licenses[k] # Unbound => used_licenses'[k] = used_licenses[k]
      ]_vars

\* a bound key that a user other than its owner redeemed with uses == 0
C5_Witness ==
    \E k \in Keys :
        /\ used_licenses[k] # Unbound
        /\ freshRedeemers[k] \ {used_licenses[k]} # {}

\* C6: when two different users have redeemed the same key, both with a
\* uses == 0 response, exactly one of them was told activated (the others
\* were told invalid), the key is bound to that user, and only users told
\* activated hold a license record.
C6_SingleWinner ==
    \A k \in Keys :
        Cardinality(freshRedeemers[k]) >= 2 =>
            /\ Cardinality(activated[k]) = 1
            /\ activated[k] \subseteq freshRedeemers[k]
            /\ activated[k] = {used_licenses[k]}
            /\ \A u \in freshRedeemers[k] \ activated[k] :
                   user_license_status[u] # NoLicense =>
                       \E k2 \in Keys \ {k} : u \in activated[k2]

\* both users redeemed the same key with uses == 0; the loser has no license
C6_Witness ==
    \E k \in Keys, u, v \in Users :
        /\ u # v
        /\ {u, v} \subseteq freshRedeemers[k]
        /\ activated[k] = {u}
        /\ user_license_status[u] # NoLicense
        /\ user_license_status[v] = NoLicense

\* the cases in which check_license_validity must fail
FailsClosedCase(u, k, r) ==
    \/ r \in {"non200", "raises", "usesN", "nodata"}
    \/ (used_licenses[k] # Unbound /\ used_licenses[k] # u)

\* C7: on a non-200 status, an exception or timeout, a payload without
\* uses == 0, or a key bound to a different user, check_license_validity
\* returns invalid and leaves user_license_status and used_licenses as they
\* were.
C7_RedeemFailsClosed ==
    [][ \A u \in Users, k \in Keys, r \in Responses :
            (Redeem(u, k, r) /\ FailsClosedCase(u, k, r)) =>
                /\ outbox' = Sent(u, "invalid")
                /\ UNCHANGED << user_license_status, used_licenses >>
      ]_vars

\* a failed redeem by a user who holds a license, with a key that is bound
C7_Witness ==
    /\ outbox.text = "invalid"
    /\ outbox.to \in Users
    /\ user_license_status[outbox.to] # NoLicense
    /\ \E k \in Keys : used_licenses[k] # Unbound

\* C8: an essay submission by a user with count >= 3 and no active license
\* is answered with the limit message, starts no analysis, and leaves the
\* count and the stored report unchanged.
C8_QuotaDenialNoEffect ==
    [][ \A u \in Users :
            (EssayStart(u) /\ Count(u) >= FreeLimit /\ ~ActiveLicense(u))
                => /\ outbox' = Sent(u, "limit")
                   /\ UNCHANGED << task, user_essay_data, evaluatorCalls >>
      ]_vars

\* C9: handle_status reports an active license only when licenseExpiry > now
\* and changes none of the three stores.
C9_StatusFaithful ==
    [][ \A u \in Users :
            Status(u) =>
                /\ (outbox'.text = "active" => ActiveLicense(u))
                /\ UNCHANGED << user_license_status, used_licenses,
                                user_essay_data >>
      ]_vars

\* C10: rendering a stored report with zero matched criteria produces a
\* document or fails with the missing-template condition, nothing else.
C10_DegenerateRenderable ==
    [][ \A t \in BagToSet(task), ok \in BOOLEAN :
            ( /\ PdfRender(t, ok)
              /\ user_essay_data[t.user] # NoData
              /\ Len(user_essay_data[t.user][1].comments) = 0 )
                => outbox'.text \in {"document", "NoTemplateAsset"}
      ]_vars

\* C12 as stated: a re-redeem of a key by the user it is bound to, with
\* uses == 0 reported, succeeds and leaves the binding and the licenseExpiry
\* as they were after the first successful redeem, whatever time has
\* passed.
C12_ReRedeemIdentical ==
    [][ \A u \in Users, k \in Keys :
            (Redeem(u, k, "uses0") /\ used_licenses[k] = u) =>
                /\ outbox' = Sent(u, "activated")
                /\ used_licenses'[k] = u
                /\ user_license_status'[u] = firstExpiry[k]
      ]_vars

\* C12 as amended: such a re-redeem succeeds and leaves the binding as it
\* was, and sets the licenseExpiry to 30 days after the time of this call.
C12_ReRedeemRenews ==
    [][ \A u \in Users, k \in Keys :
            (Redeem(u, k, "uses0") /\ used_licenses[k] = u) =>
                /\ outbox' = Sent(u, "activated")
                /\ used_licenses' = used_licenses
                /\ user_license_status' =
                       [user_license_status EXCEPT
                            ![u] = << now + LicenseDays >>]
      ]_vars

\* the owner of a key has just redeemed it again, later than the first time
C12_Witness ==
    \E k \in Keys :
        /\ used_licenses[k] # Unbound
        /\ outbox = Sent(used_licenses[k], "activated")
        /\ firstExpiry[k] # NoLicense
        /\ user_license_status[used_licenses[k]] # firstExpiry[k]

\* C18: for a user whose license has expired (licenseExpiry <= now), an
\* essay submission is admitted exactly when the stored count is below 3
\* and is answered with the limit message otherwise; it never ends in an
\* exception.
C18_ExpiredFallsBackToCounter ==
    [][ \A u \in Users :
            ( /\ EssayStart(u)
              /\ user_license_status[u] # NoLicense
              /\ ~ActiveLicense(u) ) =>
                outbox' = Sent(u, IF Count(u) < FreeLimit THEN "analyzing"
                                  ELSE "limit")
      ]_vars

\* C19: when the evaluator call fails (generate_feedback_sync leaves through
\* its except branch), the stored count after the handler equals the count
\* the handler read when the essay was submitted.
C19_FailedCallKeepsQuota ==
    [][ \A t \in BagToSet(task) :
            EssayStore(t, "raises") => Count(t.user)' = t.count
      ]_vars

\* one handler step taken on behalf of user a
StepOf(a) ==
    \/ EssayStart(a)
    \/ PdfStart(a)
    \/ Status(a)
    \/ Redeem(a, NoKey, NoResp)
    \/ \E k \in Keys, r \in Responses : Redeem(a, k, r)
    \/ \E t \in BagToSet(task) :
           /\ t.user = a
           /\ \/ \E o \in EvaluatorOutcomes : EssayStore(t, o)
              \/ \E ok \in BOOLEAN : PdfRender(t, ok)

\* C20: a handler step taken on behalf of user a leaves the stored count,
\* the stored report and the license record of every other user unchanged
\* (stated contrapositively: a step that changes them for some other user
\* is not a step on behalf of a).
C20_PerUserIsolation ==
    [][ \A a \in Users :
            (\E b \in Users \ {a} :
                 \/ user_essay_data'[b] # user_essay_data[b]
                 \/ user_license_status'[b] # user_license_status[b])
                => ~StepOf(a)
      ]_vars

\* one user holds a report and a license, redeemed after the other user
\* had tried the same key, and the other user still has neither
C20_Witness ==
    \E a, b \in Users :
        /\ a # b
        /\ user_essay_data[a] # NoData
        /\ user_license_status[a] # NoLicense
        /\ user_essay_data[b] = NoData
        /\ user_license_status[b] = NoLicense
        /\ \E k \in Keys : b \in freshRedeemers[k]

RECURSIVE Sum(_)
Sum(scores) == IF scores = << >> THEN 0 ELSE Head(scores) + Sum(Tail(scores))

\* x2 / 2 is a multiple of 0.5 nearest to the mean of the scores
Nearest(x2, scores) ==
    LET d == x2 * Len(scores) - 2 * Sum(scores)
    IN  2 * d <= Len(scores) /\ 2 * d >= -Len(scores)

\* the mean lies exactly between two multiples of 0.5
Tie(scores) == (4 * Sum(scores)) % (2 * Len(scores)) = Len(scores)

Examples ==
    /\ input = << 7, 8, 7, 8 >> => output.summary = 15
    /\ input = << 7, 7, 7, 7 >> => output.summary = 14
    /\ input = << 6, 7, 8, 9 >> => output.summary = 15

\* C13 as stated: the overall score is the mean rounded to the nearest
\* multiple of 0.5, an exact tie rounded away from zero; the three examples
\* hold; summary and footer print the same value.
C13_RoundHalfAway ==
    output.status = "returned" =>
        /\ Nearest(output.summary, input)
        /\ Tie(input) => output.summary * Len(input) > 2 * Sum(input)
        /\ Examples
        /\ output.footer = output.summary

\* C13 as amended: an exact tie is rounded to the neighbour whose double is
\* even (mean 6.25 -> 6.0, mean 6.75 -> 7.0).
C13_RoundHalfEven ==
    output.status = "returned" =>
        /\ Nearest(output.summary, input)
        /\ Tie(input) => output.summary % 2 = 0
        /\ Examples
        /\ output.footer = output.summary

\* a tie that is rounded down: mean 6.25 gives 6.0
C13_Witness ==
    /\ output.status = "returned"
    /\ input = << 6, 6, 6, 7 >>
    /\ output.summary = 12

CriterionLabels == { criteria[i] : i \in 1..Len(criteria) }

\* no line of the text names a criterion
NoStructure(text) ==
    \A i \in 1..Len(text.lines) : text.lines[i].label \notin CriterionLabels

\* C14: extraction returns for every text; a text without recognisable
\* structure yields the not-found summary, no criteria and no overall score.
C14_ExtractionNeverFails ==
    output # Pending =>
        /\ output.status = "returned"
        /\ NoStructure(input) =>
               /\ output.summary.found = FALSE
               /\ output.comments = << >>
               /\ output.summary.overall_x2 = NoScore

\* the first line of the text that names the criterion, 0 if none
FirstLineOf(text, label) ==
    FirstOf({ i \in 1..Len(text.lines) : text.lines[i].label = label })

\* the place of a label in the list of the prompt and the criteria table
Rank(label) ==
    CASE label = "Task Achievement" -> 1
      [] label = "Vocabulary" -> 2
      [] label = "Grammatical Range & Accuracy" -> 3
      [] label = "Coherence & Cohesion" -> 4

OnePerLabel(comments) ==
    \A i, j \in 1..Len(comments) : comments[i][1] = comments[j][1] => i = j

\* C15 as stated: the entries of the criteria mapping are in the order in
\* which their lines are first met in the text, one entry per label.
C15_TextOrder ==
    output.status = "returned" =>
        /\ OnePerLabel(output.comments)
        /\ \A i, j \in 1..Len(output.comments) :
               i < j => FirstLineOf(input, output.comments[i][1])
                            < FirstLineOf(input, output.comments[j][1])

\* C15 as amended: the entries are in the fixed order of the criteria table
\* (Task Achievement, Vocabulary, Grammatical Range & Accuracy, Coherence &
\* Cohesion) whatever the order of the lines in the text, one per label.
C15_TableOrder ==
    output.status = "returned" =>
        /\ OnePerLabel(output.comments)
        /\ \A i, j \in 1..Len(output.comments) :
               i < j => Rank(output.comments[i][1])
                            < Rank(output.comments[j][1])

\* a text with Vocabulary before Task Achievement, both extracted
C15_Witness ==
    /\ output.status = "returned"
    /\ Len(output.comments) >= 2
    /\ FirstLineOf(input, "Vocabulary") # 0
    /\ FirstLineOf(input, "Vocabulary")
           < FirstLineOf(input, "Task Achievement")

\* every line that names a criterion carries a number, and all 4 are named
AllFourWellFormed(text) ==
    /\ \A l \in CriterionLabels : FirstLineOf(text, l) # 0
    /\ \A i \in 1..Len(text.lines) : text.lines[i].band # Malformed

\* C16: a text with all 4 criterion lines yields exactly 4 entries with the
\* right labels and bands, whether or not it ends with a line break.
C16_EndOfTextTerminates ==
    (output # Pending /\ AllFourWellFormed(input)) =>
        /\ output.status = "returned"
        /\ Len(output.comments) = 4
        /\ \A i \in 1..Len(output.comments) :
               output.comments[i][2] =
                   input.lines[FirstLineOf(input, output.comments[i][1])].band

\* C17: the overall comment is the first "overall" line that keeps at least
\* 5 words; failing that the paragraph after the Coherence & Cohesion line;
\* and the sentinel whenever neither yields text - never an empty string.
C17_FallbackEndsInSentinel ==
    output.status = "returned" =>
        /\ OverallLineOf(input) # 0 =>
               output.overall =
                   Comment("overall_line", OverallLineOf(input),
                           input.lines[OverallLineOf(input)].words)
        /\ (OverallLineOf(input) = 0 /\ FirstLineOf(input,
                                          "Coherence & Cohesion") = 0)
               => output.overall = Sentinel
        /\ output.overall.words > 0

\* a slow external call made for user u has not returned yet
SlowCallInProgress(u) == u \in pool \/ loop.user = u

\* C11: while a slow external call (evaluator, license verification, PDF
\* rendering) is in progress for one user, an update of another user can be
\* handled.
C11_SlowCallsDoNotStall ==
    \A u, v \in Users :
        (u # v /\ SlowCallInProgress(u) /\ served[v] < MaxServed)
            => ENABLED LoopStatus(v)
====
